---- MODULE Spec2Model ----
(***************************************************************************)
(* Batch feature extraction of DrebinFeatureExtractor:                     *)
(*   src/src/extension/feature_extraction_automation.py  (main, APK,       *)
(*       FeatureExtractor: the batch driver and its process pool)          *)
(*   src/src/extractor.py  (run: the pipeline of one sample)               *)
(*   src/src/unpacker.py, src/src/analyzer/smali.py, src/src/logger.py     *)
(*                                                                         *)
(* The parent process walks main(): directories, make_apk_list,            *)
(* extract_all (submit, collect, leaving the with-block), check_anomalies, *)
(* the finally clause.  Every APK of apk_list is one task executed by a    *)
(* worker of the ProcessPoolExecutor; a task walks APK.extract_feature and *)
(* extractor.run stage by stage.  The file system (working directories,    *)
(* per-sample logs, reports, anomaly manifest) is shared state.            *)
(***************************************************************************)
EXTENDS Naturals, Integers, Sequences, FiniteSets, TLC

\* ------------------------------------------------------------------ bounds
\* longest list file (number of lines) handed to make_apk_list
MaxList == 2
\* most .dex modules found in one unpacked sample
MaxDex == 2
\* largest physical core count reported by psutil (0 stands for None / 0)
MaxCores == 1
\* most .dex modules of the sample handed to main.py
MaxModules == 2
\* most lines of one module that match a pattern of parse_smali_calls
MaxLines == 2
\* most uses-permission entries of the sample handed to main.py
MaxValues == 2
\* most calls of create_output for one sample
MaxCalls == 2
\* most lines of one smali file handed to the scan functions
MaxFileLines == 3
\* most activity blocks of one manifest
MaxActivities == 2

\* ------------------------------------------------------- program constants
\* fallback worker count of main() when the core count is unknown
DefaultWorkers == 4

\* ------------------------------------------------------------- file names
\* A file name is a stem (sequence of characters) and a suffix.
FileA == [stem |-> <<"a">>, suffix |-> "apk"]
FileAZip == [stem |-> <<"a">>, suffix |-> "zip"]
FileSp == [stem |-> <<"a", " ", "b">>, suffix |-> "apk"]
FileGone == [stem |-> <<"z">>, suffix |-> "apk"]

\* the files present in apk_dir
DirFiles == {FileA, FileAZip, FileSp}
\* the names a list file may hold (one of them names no file of apk_dir)
ListNames == DirFiles \cup {FileGone}

Stems == {f.stem : f \in ListNames}

\* primary content hash of a sample (get_sample_info: sha256 of the bytes)
Sha(f) == IF f = FileA THEN <<"H", "1">>
          ELSE IF f = FileAZip THEN <<"H", "2">>
          ELSE <<"H", "3">>

\* str.replace on a sequence of characters
Replace(s, from, to) == [k \in 1..Len(s) |-> IF s[k] = from THEN to ELSE s[k]]

\* create_logger: the log file of a sample is named from the sanitized stem
SanitizedAppName(name) == Replace(Replace(name, " ", "_"), "/", "_")

\* check_log: the log file inspected for a sample is named from the raw stem
CheckedLogName(name) == name

LogNames == Stems \cup {SanitizedAppName(s) : s \in Stems}

Levels == {"INFO", "WARNING", "ERROR", "CRITICAL"}

\* Python exception classes that matter: KeyboardInterrupt derives from
\* BaseException, everything else raised here derives from Exception.
KInt == "KeyboardInterrupt"
Exc == "Exception"

VARIABLES
    mainPc,         \* position of the parent process in main()
    status,         \* how the command finishes: "running", "ok", "exit1", "interrupted", "crash"
    overwrite,      \* --overwrite
    apk_list,       \* FeatureExtractor.apk_list (sequence of file names)
    physical_cores, \* psutil.cpu_count(logical=False); 0 for None
    max_workers,    \* max_workers handed to extract_all
    future,         \* state of each submitted future
    collectIdx,     \* index of the future the parent waits for
    propagating,    \* exception travelling out of the with-block of extract_all
    cancel,         \* a KeyboardInterrupt has reached extract_all
    task,           \* per task: the worker-side state of APK.extract_feature / run
    is_anomaly,     \* APK.is_anomaly of the parent's APK objects
    fs,             \* per stem: entries of base_working_dir/<stem> ({} = absent)
    baseDir,        \* base working directory exists
    logs,           \* per log name: levels of the lines of logs/<name>.log ({} = absent)
    written,        \* per log name: levels of the lines this run has written
    log_unreadable, \* the tasks whose log check_log could not read
    reports,        \* names n with report_dir/drebin-<n>.json present
    manifest,       \* lines of the anomaly manifest (file names)
    manifestTouched, \* the manifest file was opened for append in this run
    manifestError,  \* check_anomalies logged an IOError of the manifest
    manifest0,      \* the manifest as the command found it
    legacy,         \* main.py: the locals of run and create_output
    output_file,    \* main.py: content of results/drebin-<sha256>.json
    cli,            \* extractor.py: state of the command main
    analyzer        \* the extractors of analyzer/: arguments and results

\* state of the batch command (feature_extraction_automation.py)
batchVars == <<mainPc, status, overwrite, apk_list, physical_cores, max_workers,
               future, collectIdx, propagating, cancel, task, is_anomaly, fs,
               baseDir, logs, written, log_unreadable, reports, manifest,
               manifestTouched, manifestError, manifest0>>

\* state of the single-sample commands (main.py, extractor.py) and of the
\* extractors run on their own
unitVars == <<legacy, output_file, cli, analyzer>>

vars == <<batchVars, unitVars>>

TaskIds == 1..Len(apk_list)

\* APK.__post_init__: name and working directory of a task
ApkName(i) == apk_list[i].stem
WorkingDir(i) == ApkName(i)

\* Worker-side state of one task.
\*   pc            the statement of extract_feature / run that comes next
\*   created       working_dir.mkdir of this task has succeeded
\*   unpack        result of unpack_sample ("none" before it ran)
\*   infos, dexLeft  locals of run: app_infos and the .dex modules still to do
\*   exc           exception on its way out of extract_feature
\*   child_anomaly is_anomaly of the worker's copy of the APK object
\*   boundary      the handler that caught an exception of the pipeline at the
\*                 task boundary ("run": line 250, "extract_feature": line 139)
\*   rmFailed      rmtree of delete_working_dir raised OSError
\*   reportTried   create_report has been called
InitTask == [pc |-> "pending", created |-> FALSE, unpack |-> "none",
             infos |-> "none", dexLeft |-> 0, exc |-> "none",
             child_anomaly |-> FALSE, boundary |-> "none",
             rmFailed |-> FALSE, reportTried |-> FALSE]

\* the anomaly manifest left by earlier runs: none, or one line
PriorManifests == {<<>>, <<FileGone>>}

\* main.py has not been started
LegacyIdle == [pc |-> "off", calls |-> 0, dex_left |-> 0,
               dangerous_calls |-> <<>>, app_infos |-> <<>>,
               app_permissions |-> <<>>, api_permissions |-> <<>>,
               api_calls |-> <<>>, detected_ads |-> <<>>, ssdeep_value |-> <<>>,
               output |-> <<>>, processed_output |-> <<>>,
               first |-> [vector |-> <<>>, bytes |-> <<>>]]

\* results/drebin-<sha256>.json does not exist
NoFile == [exists |-> FALSE, chunks |-> <<>>]

\* extractor.py has not been started
CliIdle == [pc |-> "off", sample |-> FileA, working_dir |-> FALSE,
            report_dir |-> FALSE, exc |-> "none", error |-> "none",
            exit_code |-> 0, log |-> {}]

\* the extractors have not been started
AnalyzerIdle ==
    [pc |-> "off", files |-> <<>>, dangerous_calls |-> <<>>, app_urls |-> <<>>,
     badging |-> [failed |-> FALSE, launchable |-> <<>>],
     xmltree |-> [failed |-> FALSE, names |-> <<>>],
     app_activities |-> <<>>]

UnitIdle ==
    /\ legacy = LegacyIdle
    /\ output_file = NoFile
    /\ cli = CliIdle
    /\ analyzer = AnalyzerIdle

\* the batch command has not been started
BatchOff ==
    /\ mainPc = "off"
    /\ status = "running"
    /\ overwrite = FALSE
    /\ apk_list = <<>>
    /\ physical_cores = 0
    /\ max_workers = 0
    /\ future = <<>>
    /\ collectIdx = 0
    /\ propagating = "none"
    /\ cancel = FALSE
    /\ task = <<>>
    /\ is_anomaly = <<>>
    /\ fs = [s \in Stems |-> {}]
    /\ baseDir = FALSE
    /\ logs = [n \in LogNames |-> {}]
    /\ written = [n \in LogNames |-> {}]
    /\ log_unreadable = {}
    /\ reports = {}
    /\ manifest = <<>>
    /\ manifestTouched = FALSE
    /\ manifestError = FALSE
    /\ manifest0 = <<>>

Init ==
    /\ UnitIdle
    /\ mainPc = "dirs"
    /\ status = "running"
    /\ overwrite \in BOOLEAN
    /\ apk_list = <<>>
    /\ physical_cores = 0
    /\ max_workers = 0
    /\ future = <<>>
    /\ collectIdx = 0
    /\ propagating = "none"
    /\ cancel = FALSE
    /\ task = <<>>
    /\ is_anomaly = <<>>
    /\ fs = [s \in Stems |-> {}]
    /\ baseDir = FALSE
    /\ logs = [n \in LogNames |-> {}]
    /\ written = [n \in LogNames |-> {}]
    /\ log_unreadable = {}
    /\ reports \in {{}, {FileA.stem}, {Sha(FileA)}}
    /\ manifest \in PriorManifests
    /\ manifest0 = manifest
    /\ manifestTouched = FALSE
    /\ manifestError = FALSE

\* logs/a.log as an earlier run of the command left it: logging.FileHandler
\* opens the file for append, so the file starts with the lines of that run,
\* without or with an ERROR line
PriorLogs == {{"INFO"}, {"INFO", "ERROR"}}

\* The command is started again on a directory it has processed before:
\* logs/a.log exists, the report of a.apk may exist, overwrite is off.
RerunInit ==
    /\ UnitIdle
    /\ mainPc = "dirs"
    /\ status = "running"
    /\ overwrite = FALSE
    /\ apk_list = <<>>
    /\ physical_cores = 0
    /\ max_workers = 0
    /\ future = <<>>
    /\ collectIdx = 0
    /\ propagating = "none"
    /\ cancel = FALSE
    /\ task = <<>>
    /\ is_anomaly = <<>>
    /\ fs = [s \in Stems |-> {}]
    /\ baseDir = FALSE
    /\ \E prior \in PriorLogs :
          logs = [n \in LogNames |-> IF n = FileA.stem THEN prior ELSE {}]
    /\ written = [n \in LogNames |-> {}]
    /\ log_unreadable = {}
    /\ reports \in {{}, {FileA.stem}}
    /\ manifest = <<>>
    /\ manifest0 = manifest
    /\ manifestTouched = FALSE
    /\ manifestError = FALSE

\* ------------------------------------------------------------ helpers
\* the elements of a list
Range(q) == {q[k] : k \in 1..Len(q)}

\* variant: a handler for a narrower class that these exceptions escape
IsExceptionNarrow(e) == FALSE

\* `except Exception` catches every exception class except the BaseException
\* subclasses (KeyboardInterrupt): the handlers of run, extract_feature,
\* extract_all and main are all of this form.
IsException(e) == e = Exc

\* variant: the parent does not wait for a work item
FutureDoneNoWait(i) == TRUE

\* future.result() and shutdown(wait=True) block until the work item is over
FutureDone(i) == future[i] \notin {"pending", "running"}

AddLog(l, name, levels) == [l EXCEPT ![name] = @ \cup {"INFO"} \cup levels]

\* Path.mkdir(parents=True, exist_ok=True) of base/<stem>[/<sub>]
MkDirs(f, stem, subs) == [f EXCEPT ![stem] = @ \cup {"dir"} \cup subs]

Running == {i \in TaskIds : future[i] = "running"}
Terminal(i) == task[i].pc = "done"

\* psutil's answer turned into the pool size (main)
\* variant: the pool sized by logical cores, two per physical core
MaxWorkersLogical(cores) == IF cores > 0 THEN 2 * cores ELSE DefaultWorkers

MaxWorkersToUse(cores) == IF cores > 0 THEN cores ELSE DefaultWorkers

\* ------------------------------------------------------- parent: main()
\* main: report directory, log directory and base working directory are
\* created; an OSError ends the command with exit code 1.
MainDirs ==
    /\ mainPc = "dirs"
    /\ \E ok \in BOOLEAN :
         IF ok
         THEN /\ baseDir' = TRUE
              /\ mainPc' = "make_apk_list"
              /\ UNCHANGED status
         ELSE /\ mainPc' = "exit"
              /\ status' = "exit1"
              /\ UNCHANGED baseDir
    /\ UNCHANGED <<overwrite, apk_list, physical_cores, max_workers, future,
                   collectIdx, propagating, cancel, task, is_anomaly, fs,
                   logs, written, reports, manifest, manifestTouched, manifestError, manifest0, log_unreadable>>
    /\ UNCHANGED unitVars

\* the paths of a list file that name a file of apk_dir, in list order
RECURSIVE ValidApkPaths(_)
ValidApkPaths(names) ==
    IF names = <<>> THEN <<>>
    ELSE (IF Head(names) \in DirFiles THEN <<Head(names)>> ELSE <<>>)
         \o ValidApkPaths(Tail(names))

\* apk_dir.glob("*.apk"): every *.apk file once, in directory order
GlobApk ==
    LET apks == {f \in DirFiles : f.suffix = "apk"}
    IN  {q \in [1..Cardinality(apks) -> apks] :
            \A x, y \in 1..Cardinality(apks) : x # y => q[x] # q[y]}

ListFiles == UNION {[1..n -> ListNames] : n \in 0..MaxList}

\* FeatureExtractor.make_apk_list: from a list file (no de-duplication) or
\* from a scan of apk_dir; an empty result leaves apk_list empty.
MakeApkList ==
    /\ mainPc = "make_apk_list"
    /\ \E paths \in {ValidApkPaths(l) : l \in ListFiles} \cup GlobApk :
         /\ apk_list' = paths
         /\ task' = [i \in 1..Len(paths) |-> InitTask]
         /\ is_anomaly' = [i \in 1..Len(paths) |-> FALSE]
         /\ future' = [i \in 1..Len(paths) |-> "unsubmitted"]
    /\ mainPc' = "extract_all"
    /\ UNCHANGED <<status, overwrite, physical_cores, max_workers, collectIdx,
                   propagating, cancel, fs, baseDir, logs, written, reports, manifest,
                   manifestTouched, manifestError, manifest0, log_unreadable>>
    /\ UNCHANGED unitVars

\* main computes the worker count; extract_all returns at once on an empty
\* list, otherwise it opens the pool and submits one future per APK.
ExtractAllSubmit ==
    /\ mainPc = "extract_all"
    /\ \E cores \in 0..MaxCores :
         /\ physical_cores' = cores
         /\ max_workers' = MaxWorkersToUse(cores)
    /\ IF apk_list = <<>>
       THEN /\ mainPc' = "check_logs"
            /\ UNCHANGED <<future, collectIdx>>
       ELSE /\ mainPc' = "collect"
            /\ future' = [i \in TaskIds |-> "pending"]
            /\ collectIdx' = 1
    /\ UNCHANGED <<status, overwrite, apk_list, propagating, cancel, task,
                   is_anomaly, fs, baseDir, logs, written, reports, manifest,
                   manifestTouched, manifestError, manifest0, log_unreadable>>
    /\ UNCHANGED unitVars

\* ------------------------------------------- worker: APK.extract_feature
\* report_dir/drebin-<name>.json, the file extract_feature looks for
ReportFileName(i) == ApkName(i)

\* variant: extract_feature without its finally clause
AfterTryNoFinally == "done"

\* where an exit of the try-block of extract_feature leads: its finally clause
AfterTry == "cleanup"

\* The exception e leaves the try-block of extract_feature: `except Exception`
\* marks the worker's copy of the APK anomalous; anything else stays pending
\* until the finally clause has run and then ends the future.
FeatureRaise(t, e) ==
    IF IsException(e)
    THEN [t EXCEPT !.child_anomaly = TRUE, !.boundary = "extract_feature",
                   !.infos = "none", !.dexLeft = 0, !.pc = AfterTry]
    ELSE [t EXCEPT !.exc = e, !.infos = "none", !.dexLeft = 0, !.pc = AfterTry]

\* The exception e reaches the outer handlers of run: KeyboardInterrupt is
\* logged and re-raised, an Exception is logged as CRITICAL and swallowed
\* (run returns normally).  The locals of run end with it.
RunRaise(t, e) ==
    IF e # KInt /\ IsException(e)
    THEN [t EXCEPT !.boundary = "run", !.infos = "none", !.dexLeft = 0,
                   !.pc = AfterTry]
    ELSE FeatureRaise(t, e)

RunRaiseLog(e) ==
    IF e = KInt THEN {"WARNING"}
    ELSE IF IsException(e) THEN {"CRITICAL"} ELSE {}

\* A worker takes the oldest pending work item while fewer than max_workers
\* tasks are executing.  extract_feature returns at once when the report file
\* exists and overwrite is off.
StartTask(i) ==
    /\ mainPc \in {"collect", "with_exit"}
    /\ future[i] = "pending"
    /\ \A j \in TaskIds : j < i => future[j] # "pending"
    /\ Cardinality(Running) < max_workers
    /\ IF ReportFileName(i) \in reports /\ ~overwrite
       THEN /\ task' = [task EXCEPT ![i].pc = "done"]
            /\ future' = [future EXCEPT ![i] = "finished"]
       ELSE /\ task' = [task EXCEPT ![i].pc = "mkdir"]
            /\ future' = [future EXCEPT ![i] = "running"]
    /\ UNCHANGED <<mainPc, status, overwrite, apk_list, physical_cores,
                   max_workers, collectIdx, propagating, cancel, is_anomaly,
                   fs, baseDir, logs, written, reports, manifest, manifestTouched, manifestError, manifest0, log_unreadable>>
    /\ UNCHANGED unitVars

\* working_dir.mkdir(parents=True, exist_ok=True), then run starts and
\* create_logger opens logs/<sanitized name>.log.
BeginExtraction(i) ==
    /\ task[i].pc = "mkdir"
    /\ \E ok \in BOOLEAN :
         IF ok
         THEN /\ fs' = MkDirs(fs, WorkingDir(i), {})
              /\ logs' = AddLog(logs, SanitizedAppName(ApkName(i)), {})
              /\ written' = AddLog(written, SanitizedAppName(ApkName(i)), {})
              /\ task' = [task EXCEPT ![i].created = TRUE, ![i].pc = "unpack"]
         ELSE /\ task' = [task EXCEPT
                            ![i] = FeatureRaise(@, Exc)]
              /\ UNCHANGED <<fs, logs, written>>
    /\ UNCHANGED <<mainPc, status, overwrite, apk_list, physical_cores,
                   max_workers, future, collectIdx, propagating, cancel,
                   is_anomaly, baseDir, reports, manifest, manifestTouched, manifestError, manifest0, log_unreadable>>
    /\ UNCHANGED unitVars

\* run: unpack_sample creates <working_dir>/unpack and extracts the archive;
\* BadZipFile becomes ValueError; the inner handler logs an ERROR and goes on
\* with unpack_location = None.
Unpack(i) ==
    /\ task[i].pc = "unpack"
    /\ \E r \in {"ok", "badzip"} :
         /\ fs' = MkDirs(fs, WorkingDir(i), {"unpack"})
         /\ IF r = "ok"
            THEN /\ task' = [task EXCEPT ![i].unpack = "ok", ![i].pc = "manifest"]
                 /\ logs' = AddLog(logs, SanitizedAppName(ApkName(i)), {})
                 /\ written' = AddLog(written, SanitizedAppName(ApkName(i)), {})
            ELSE IF IsException(Exc)
            THEN /\ task' = [task EXCEPT ![i].unpack = r, ![i].pc = "manifest"]
                 /\ logs' = AddLog(logs, SanitizedAppName(ApkName(i)), {"ERROR"})
                 /\ written' = AddLog(written, SanitizedAppName(ApkName(i)), {"ERROR"})
            ELSE /\ task' = [task EXCEPT
                               ![i] = RunRaise([@ EXCEPT !.unpack = r], Exc)]
                 /\ logs' = AddLog(logs, SanitizedAppName(ApkName(i)),
                                   RunRaiseLog(Exc))
                 /\ written' = AddLog(written, SanitizedAppName(ApkName(i)),
                                         RunRaiseLog(Exc))
    /\ UNCHANGED <<mainPc, status, overwrite, apk_list, physical_cores,
                   max_workers, future, collectIdx, propagating, cancel,
                   is_anomaly, baseDir, reports, manifest, manifestTouched, manifestError, manifest0, log_unreadable>>
    /\ UNCHANGED unitVars

\* get_sample_info: "full" = hashes, package, sdk version and name; "hashes"
\* = aapt failed after the hashes were computed (logged as ERROR, the list
\* holds the two hashes); "raised" = the call itself raised.  aapt fails on a
\* file that is no archive.
SampleInfoOutcomes(unpack) ==
    IF unpack = "badzip" THEN {"hashes"} ELSE {"full", "hashes", "raised"}

\* run: the manifest/badging extractors, each in its own try/except that logs
\* a WARNING, the fuzzy hash, and the listing of the .dex files.
Manifest(i) ==
    /\ task[i].pc = "manifest"
    /\ \E si \in SampleInfoOutcomes(task[i].unpack), w \in BOOLEAN, n \in 0..MaxDex :
         LET t == task[i]
             failedStep == si = "raised" \/ w
             found == IF t.unpack = "ok" /\ "unpack" \in fs[WorkingDir(i)]
                      THEN n ELSE 0
             lv == (IF failedStep THEN {"WARNING"} ELSE {})
                   \cup (IF si = "hashes" THEN {"ERROR"} ELSE {})
                   \cup (IF t.unpack # "ok" THEN {"WARNING"} ELSE {})
             t1 == [t EXCEPT !.infos = IF si = "raised" THEN "none" ELSE si,
                             !.dexLeft = found,
                             !.pc = IF found > 0 THEN "dex" ELSE "report"]
         IN  /\ n = found
             /\ IF failedStep /\ ~IsException(Exc)
                THEN /\ task' = [task EXCEPT ![i] = RunRaise(t, Exc)]
                     /\ logs' = AddLog(logs, SanitizedAppName(ApkName(i)),
                                       RunRaiseLog(Exc))
                     /\ written' = AddLog(written, SanitizedAppName(ApkName(i)),
                                             RunRaiseLog(Exc))
                ELSE /\ task' = [task EXCEPT ![i] = t1]
                     /\ logs' = AddLog(logs, SanitizedAppName(ApkName(i)), lv)
                     /\ written' = AddLog(written, SanitizedAppName(ApkName(i)), lv)
    /\ UNCHANGED <<mainPc, status, overwrite, apk_list, physical_cores,
                   max_workers, future, collectIdx, propagating, cancel,
                   is_anomaly, fs, baseDir, reports, manifest, manifestTouched, manifestError, manifest0, log_unreadable>>
    /\ UNCHANGED unitVars

\* dex2x ends with `return str(smali_location)` (smali.py)
Dex2xResultType == "str"

\* run calls smali_location.is_dir(): pathlib.Path has the method, str has not
HasIsDir(type) == type = "Path"

\* run: one .dex module.  dex2x creates <working_dir>/smali and runs baksmali.
\*  - baksmali fails: dex2x raises before smali_location is assigned; the
\*    handler logs an ERROR, the finally clause finds smali_location = None
\*    and removes nothing; the loop goes on with the next module.
\*  - baksmali succeeds: smali_location is what dex2x returned.  Without an
\*    is_dir method the test of line 184 raises AttributeError, the handler
\*    logs an ERROR, and the same test in the finally clause raises again:
\*    that exception leaves the loop and reaches the outer handler of run.
\*    With the method the module is scanned and its smali directory removed.
Dex(i) ==
    /\ task[i].pc = "dex"
    /\ task[i].dexLeft > 0
    /\ \E r \in {"disassembled", "failed"} :
         LET t == task[i]
             name == SanitizedAppName(ApkName(i))
             made == MkDirs(fs, WorkingDir(i), {"smali"})
             next == [t EXCEPT !.dexLeft = @ - 1,
                               !.pc = IF t.dexLeft = 1 THEN "report" ELSE "dex"]
         IN  IF r = "failed"
             THEN /\ fs' = made
                  /\ IF IsException(Exc)
                     THEN /\ task' = [task EXCEPT ![i] = next]
                          /\ logs' = AddLog(logs, name, {"ERROR"})
                          /\ written' = AddLog(written, name, {"ERROR"})
                     ELSE /\ task' = [task EXCEPT ![i] = RunRaise(t, Exc)]
                          /\ logs' = AddLog(logs, name, {"ERROR"} \cup RunRaiseLog(Exc))
                          /\ written' = AddLog(written, name, {"ERROR"} \cup RunRaiseLog(Exc))
             ELSE IF HasIsDir(Dex2xResultType)
             THEN /\ fs' = [made EXCEPT ![WorkingDir(i)] = @ \ {"smali"}]
                  /\ task' = [task EXCEPT ![i] = next]
                  /\ logs' = AddLog(logs, name, {})
                  /\ written' = AddLog(written, name, {})
             ELSE /\ fs' = made
                  /\ task' = [task EXCEPT ![i] = RunRaise(t, Exc)]
                  /\ logs' = AddLog(logs, name,
                                    (IF IsException(Exc) THEN {"ERROR"} ELSE {})
                                    \cup RunRaiseLog(Exc))
                  /\ written' = AddLog(written, name,
                                          (IF IsException(Exc) THEN {"ERROR"} ELSE {})
                                          \cup RunRaiseLog(Exc))
    /\ UNCHANGED <<mainPc, status, overwrite, apk_list, physical_cores,
                   max_workers, future, collectIdx, propagating, cancel,
                   is_anomaly, baseDir, reports, manifest, manifestTouched, manifestError, manifest0, log_unreadable>>
    /\ UNCHANGED unitVars

\* create_report names the report from the primary content hash
ReportName(f) == Sha(f)

\* create_report needs the sample's hash to name the report
CanPersist(infos) == infos # "none"

\* run: create_report assembles the feature vector and persists it; an
\* exception reaches the outer handler of run.
Report(i) ==
    /\ task[i].pc = "report"
    /\ \E ok \in BOOLEAN :
         LET t == [task[i] EXCEPT !.reportTried = TRUE]
             name == SanitizedAppName(ApkName(i))
         IN  IF ok /\ CanPersist(t.infos)
             THEN /\ reports' = reports \cup {ReportName(apk_list[i])}
                  /\ task' = [task EXCEPT ![i] = [t EXCEPT !.infos = "none",
                                                            !.pc = AfterTry]]
                  /\ logs' = AddLog(logs, name, {})
                  /\ written' = AddLog(written, name, {})
             ELSE /\ task' = [task EXCEPT ![i] = RunRaise(t, Exc)]
                  /\ logs' = AddLog(logs, name, RunRaiseLog(Exc))
                  /\ written' = AddLog(written, name, RunRaiseLog(Exc))
                  /\ UNCHANGED reports
    /\ UNCHANGED <<mainPc, status, overwrite, apk_list, physical_cores,
                   max_workers, future, collectIdx, propagating, cancel,
                   is_anomaly, fs, baseDir, manifest, manifestTouched, manifestError, manifest0, log_unreadable>>
    /\ UNCHANGED unitVars

\* SIGINT reaches the worker while it executes the task: KeyboardInterrupt is
\* raised at the current statement.  Inside run it is logged as WARNING and
\* re-raised; `except Exception` of extract_feature does not catch it.
Interrupt(i) ==
    /\ task[i].pc \in {"mkdir", "unpack", "manifest", "dex", "report"}
    /\ IF task[i].pc = "mkdir"
       THEN /\ task' = [task EXCEPT ![i] = FeatureRaise(@, KInt)]
            /\ UNCHANGED <<logs, written>>
       ELSE /\ task' = [task EXCEPT ![i] = RunRaise(@, KInt)]
            /\ logs' = AddLog(logs, SanitizedAppName(ApkName(i)), RunRaiseLog(KInt))
            /\ written' = AddLog(written, SanitizedAppName(ApkName(i)), RunRaiseLog(KInt))
    /\ UNCHANGED <<mainPc, status, overwrite, apk_list, physical_cores,
                   max_workers, future, collectIdx, propagating, cancel,
                   is_anomaly, fs, baseDir, reports, manifest, manifestTouched, manifestError, manifest0, log_unreadable>>
    /\ UNCHANGED unitVars

\* APK.delete_working_dir in the finally clause of extract_feature: rmtree of
\* base/<stem> when it exists; an OSError is logged and the tree stays.  The
\* future then ends with the pending exception, if any.
Cleanup(i) ==
    /\ task[i].pc = "cleanup"
    /\ \E ok \in BOOLEAN :
         IF "dir" \in fs[WorkingDir(i)]
         THEN IF ok
              THEN /\ fs' = [fs EXCEPT ![WorkingDir(i)] = {}]
                   /\ task' = [task EXCEPT ![i].pc = "done"]
              ELSE /\ task' = [task EXCEPT ![i].pc = "done", ![i].rmFailed = TRUE]
                   /\ UNCHANGED fs
         ELSE /\ ok
              /\ task' = [task EXCEPT ![i].pc = "done"]
              /\ UNCHANGED fs
    /\ future' = [future EXCEPT
                    ![i] = IF task[i].exc = "none" THEN "finished" ELSE task[i].exc]
    /\ UNCHANGED <<mainPc, status, overwrite, apk_list, physical_cores,
                   max_workers, collectIdx, propagating, cancel, is_anomaly,
                   baseDir, logs, written, reports, manifest, manifestTouched, manifestError, manifest0, log_unreadable>>
    /\ UNCHANGED unitVars

\* -------------------------------------------------- parent: extract_all
\* `for future in futures: future.result()`: wait for the next future in
\* submission order.  An Exception it raises marks the parent's APK anomalous;
\* anything else (KeyboardInterrupt) leaves the loop and the with-block.
Collect ==
    /\ mainPc = "collect"
    /\ IF collectIdx > Len(apk_list)
       THEN /\ mainPc' = "with_exit"
            /\ UNCHANGED <<collectIdx, propagating, cancel, is_anomaly>>
       ELSE /\ FutureDone(collectIdx)
            /\ LET f == IF future[collectIdx] \in {Exc, KInt}
                        THEN future[collectIdx] ELSE "finished"
               IN  IF f = "finished"
                   THEN /\ collectIdx' = collectIdx + 1
                        /\ UNCHANGED <<mainPc, propagating, cancel, is_anomaly>>
                   ELSE IF IsException(f)
                   THEN /\ collectIdx' = collectIdx + 1
                        /\ is_anomaly' = [is_anomaly EXCEPT ![collectIdx] = TRUE]
                        /\ UNCHANGED <<mainPc, propagating, cancel>>
                   ELSE /\ mainPc' = "with_exit"
                        /\ propagating' = f
                        /\ cancel' = (cancel \/ f = KInt)
                        /\ UNCHANGED <<collectIdx, is_anomaly>>
    /\ UNCHANGED <<status, overwrite, apk_list, physical_cores, max_workers,
                   future, task, fs, baseDir, logs, written, reports, manifest,
                   manifestTouched, manifestError, manifest0, log_unreadable>>
    /\ UNCHANGED unitVars

\* SIGINT reaches the parent while it waits in future.result()
ParentInterrupt ==
    /\ mainPc = "collect"
    /\ mainPc' = "with_exit"
    /\ propagating' = KInt
    /\ cancel' = TRUE
    /\ UNCHANGED <<status, overwrite, apk_list, physical_cores, max_workers,
                   future, collectIdx, task, is_anomaly, fs, baseDir, logs, written,
                   reports, manifest, manifestTouched, manifestError, manifest0, log_unreadable>>
    /\ UNCHANGED unitVars

\* Executor.__exit__ is shutdown(wait=True): it returns when every submitted
\* work item has been executed; nothing is cancelled.
ShutdownWaitDone == \A i \in TaskIds : FutureDone(i)

\* Leaving the with-block, normally or with an exception on its way to the
\* handlers of extract_all, which are outside the with-block.
WithExit ==
    /\ mainPc = "with_exit"
    /\ ShutdownWaitDone
    /\ IF propagating = "none"
       THEN /\ mainPc' = "check_logs"
            /\ UNCHANGED status
       ELSE IF propagating = KInt
       THEN /\ mainPc' = "kbd_handler"
            /\ UNCHANGED status
       ELSE IF IsException(propagating)
       THEN /\ mainPc' = "check_logs"
            /\ UNCHANGED status
       ELSE /\ mainPc' = "main_finally"
            /\ status' = "crash"
    /\ UNCHANGED <<overwrite, apk_list, physical_cores, max_workers, future,
                   collectIdx, propagating, cancel, task, is_anomaly, fs,
                   baseDir, logs, written, reports, manifest, manifestTouched, manifestError, manifest0, log_unreadable>>
    /\ UNCHANGED unitVars

\* except KeyboardInterrupt: shutdown(wait=True, cancel_futures=True) cancels
\* the futures that are still pending, then the interrupt is re-raised; main
\* has no handler for it, only its finally clause.
KbdHandler ==
    /\ mainPc = "kbd_handler"
    /\ future' = [i \in TaskIds |->
                    IF future[i] = "pending" THEN "cancelled" ELSE future[i]]
    /\ mainPc' = "main_finally"
    /\ status' = "interrupted"
    /\ UNCHANGED <<overwrite, apk_list, physical_cores, max_workers,
                   collectIdx, propagating, cancel, task, is_anomaly, fs,
                   baseDir, logs, written, reports, manifest, manifestTouched, manifestError, manifest0, log_unreadable>>
    /\ UNCHANGED unitVars

\* ----------------------------------------------- parent: check_anomalies
\* APK.check_log: the file logs/<name>.log that is inspected for a task
LogFile(i) == logs[CheckedLogName(ApkName(i))]

\* variant: only the ERROR marker is looked for
CheckLogErrorsOnly(i) == LogFile(i) # {} /\ "ERROR" \in LogFile(i)

\* APK.check_log: the log logs/<name>.log exists and holds a line with the
\* ERROR or the WARNING marker
CheckLog(i) ==
    LET lines == logs[CheckedLogName(ApkName(i))]
    IN  lines # {} /\ lines \cap {"ERROR", "WARNING"} # {}

\* check_anomalies, first half: check_log for every APK of the list.  A log
\* file that is missing is reported and the APK is left as it is; a log file
\* that exists but cannot be read (open or decoding raises) marks the APK
\* anomalous; otherwise the APK is marked when a line carries a marker.
CheckLogs ==
    /\ mainPc = "check_logs"
    /\ IF apk_list = <<>>
       THEN /\ mainPc' = "main_finally"
            /\ status' = "ok"
            /\ UNCHANGED <<is_anomaly, log_unreadable>>
       ELSE /\ mainPc' = "write_manifest"
            /\ \E bad \in SUBSET {i \in TaskIds : LogFile(i) # {}} :
                  /\ log_unreadable' = bad
                  /\ is_anomaly' = [i \in TaskIds |->
                                      is_anomaly[i] \/ i \in bad \/ CheckLog(i)]
            /\ UNCHANGED status
    /\ UNCHANGED <<overwrite, apk_list, physical_cores, max_workers, future,
                   collectIdx, propagating, cancel, task, fs, baseDir, logs, written,
                   reports, manifest, manifestTouched, manifestError, manifest0>>
    /\ UNCHANGED unitVars

\* the file names of the anomalous APKs, in list order
RECURSIVE AnomalyNames(_)
AnomalyNames(i) ==
    IF i > Len(apk_list) THEN <<>>
    ELSE (IF is_anomaly[i] THEN <<apk_list[i]>> ELSE <<>>) \o AnomalyNames(i + 1)

\* variant: the manifest opened with mode "w"
OverwriteLines(file, names) == names

\* open(anomaly_list_filepath, "a") and one write per name: the file keeps
\* what it holds and the names are added at its end
AppendLines(file, names) == file \o names

\* check_anomalies, second half: when at least one APK is anomalous their
\* names are appended to the manifest.  An IOError (mkdir of the directory,
\* open, write) is logged: nothing, or only the first names, were added.
WriteManifest ==
    /\ mainPc = "write_manifest"
    /\ IF AnomalyNames(1) # <<>>
       THEN \E opened \in BOOLEAN, n \in 0..Len(AnomalyNames(1)) :
              /\ ~opened => n = 0
              /\ manifest' = IF opened
                             THEN AppendLines(manifest, SubSeq(AnomalyNames(1), 1, n))
                             ELSE manifest
              /\ manifestTouched' = opened
              /\ manifestError' = (~opened \/ n < Len(AnomalyNames(1)))
       ELSE UNCHANGED <<manifest, manifestTouched, manifestError>>
    /\ mainPc' = "main_finally"
    /\ status' = "ok"
    /\ UNCHANGED <<overwrite, apk_list, physical_cores, max_workers, future,
                   collectIdx, propagating, cancel, task, is_anomaly, fs,
                   baseDir, logs, written, reports, manifest0, log_unreadable>>
    /\ UNCHANGED unitVars

\* variant: main leaves the base working directory content in place
RmTreeBaseNoop(f) == f

\* shutil.rmtree(base_app_working_dir): every working directory goes with it
RmTreeBase(f) == [s \in Stems |-> {}]

\* finally clause of main: rmtree of the base working directory when it
\* exists; an OSError is logged and the tree stays.
MainFinally ==
    /\ mainPc = "main_finally"
    /\ \E ok \in BOOLEAN :
         IF baseDir /\ ok
         THEN /\ fs' = RmTreeBase(fs)
              /\ baseDir' = FALSE
         ELSE /\ baseDir \/ ok
              /\ UNCHANGED <<fs, baseDir>>
    /\ mainPc' = "exit"
    /\ UNCHANGED <<status, overwrite, apk_list, physical_cores, max_workers,
                   future, collectIdx, propagating, cancel, task, is_anomaly,
                   logs, written, reports, manifest, manifestTouched, manifestError, manifest0, log_unreadable>>
    /\ UNCHANGED unitVars

\* =================================================== main.py: one sample
\* run of main.py scans the .dex modules of one sample and hands the findings
\* to create_output, which builds the report dictionary, turns it into the
\* feature vector with report_to_feature_vector and writes it to
\* <working_dir>/results/drebin-<sha256>.json.

\* --------------------------------------------------- strings as token lists
\* A string is a sequence of tokens: " ", ".", "_", ":", "(", ")" and ";"
\* stand for themselves, any other token is a run of other characters.
RECURSIVE LStrip(_)
LStrip(s) == IF s # <<>> /\ Head(s) = " " THEN LStrip(Tail(s)) ELSE s

RECURSIVE RStrip(_)
RStrip(s) ==
    IF s # <<>> /\ s[Len(s)] = " " THEN RStrip(SubSeq(s, 1, Len(s) - 1)) ELSE s

\* str.strip()
Strip(s) == RStrip(LStrip(s))

\* `tok in val`
Contains(val, tok) == \E n \in 1..Len(val) : val[n] = tok

\* val.split(" ")[0]
RECURSIVE FirstField(_)
FirstField(val) ==
    IF val = <<>> \/ Head(val) = " " THEN <<>>
    ELSE <<Head(val)>> \o FirstField(Tail(val))

\* the keys of the dictionary built by create_output, in the order of the
\* dictionary display
sha256 == <<"sha256">>
md5 == <<"md5">>
ssdeep == <<"ssdeep">>
package_name == <<"package", "_", "name">>
sdk_version == <<"sdk", "_", "version">>
apk_name == <<"apk", "_", "name">>
app_permissions == <<"app", "_", "permissions">>
api_permissions == <<"api", "_", "permissions">>
api_calls == <<"api", "_", "calls">>
features == <<"features">>
intents == <<"intents">>
activities == <<"activities">>
s_and_r == <<"s", "_", "and", "_", "r">>
interesting_calls == <<"interesting", "_", "calls">>
urls == <<"urls">>
networks == <<"networks">>
providers == <<"providers">>
included_files == <<"included", "_", "files">>
detected_ad_networks == <<"detected", "_", "ad", "_", "networks">>

ReportKeyList ==
    <<sha256, md5, ssdeep, package_name, sdk_version, apk_name,
      app_permissions, api_permissions, api_calls, features, intents,
      activities, s_and_r, interesting_calls, urls, networks, providers,
      included_files, detected_ad_networks>>

ScalarFields == {sha256, md5, ssdeep, package_name, sdk_version, apk_name}

\* the categories report_to_feature_vector turns into keys
VectorCategories ==
    {intents, features, urls, api_calls, interesting_calls, app_permissions,
     api_permissions, activities, s_and_r, providers}

\* the integer 1 as it is written to the JSON file
One == <<"1">>

\* --------------------------------------------------------- parse_smali_calls
\* A line of a smali file is a sequence of tokens: a pattern of the
\* catalogue, a URL and an IP address are one token each, Quote is the
\* double quote.
Quote == "\""

\* four entries of dangerous_patterns, in the order of the dictionary; the
\* description of "crypto" is None (here the empty string, equally falsy)
dangerous_patterns ==
    <<[pattern |-> "Cipher",
       description |-> <<"Cipher", "(", "{prev_line}", ")">>],
      [pattern |-> "crypto", description |-> <<>>],
      [pattern |-> "Lorg/apache/http/client/methods/HttpPost",
       description |-> <<"HttpPost">>],
      [pattern |-> "Ljava/lang/Runtime;->exec",
       description |-> <<"Execution", " ", "of", " ", "external", " ",
                         "commands">>]>>

\* texts of const-string instructions
CipherTexts == {<<"AES">>, <<"x", " ", "HttpPost">>}

ConstLine(text) == <<" ", "const-string", " ", Quote>> \o text \o <<Quote>>
PlainLine == <<" ", "move-result-object">>
CipherLine == <<" ", "invoke-static", " ", "crypto", "/", "Cipher">>
PostLine == <<" ", "new-instance", " ", "Lorg/apache/http/client/methods/HttpPost">>
ExecLine == <<" ", "invoke-virtual", " ", "Ljava/lang/Runtime;->exec">>
ExecPostLine ==
    <<" ", "Ljava/lang/Runtime;->exec", " ",
      "Lorg/apache/http/client/methods/HttpPost">>
UrlLine == <<" ", "http://a", " ", "https://b", " ", "10.0.0.1", " ", "10.0.0.2">>

\* The instructions of a module that match a pattern of dangerous_patterns:
\* one line, or for "Cipher" the line with the const-string two lines
\* above it.
MatchingLines ==
    {<<ExecLine>>, <<PostLine>>}
    \cup {<<ConstLine(t), PlainLine, CipherLine>> : t \in CipherTexts}

\* an exception of the expression, or its value
IndexError == [raised |-> TRUE, value |-> <<>>]
Value(v) == [raised |-> FALSE, value |-> v]

\* lines[idx - 2] for the line at position n (idx = n - 1): a negative index
\* counts from the end of the list
PrevLine(lines, n) ==
    LET p == IF n - 2 >= 1 THEN n - 2 ELSE n - 2 + Len(lines)
    IN  IF p >= 1 THEN Value(lines[p]) ELSE IndexError

\* s.split('"')[1]: what follows the first quote, up to the next quote
SplitQuote1(s) ==
    LET q == {n \in 1..Len(s) : s[n] = Quote}
    IN  IF q = {} THEN IndexError
        ELSE LET a == CHOOSE n \in q : \A m \in q : n <= m
                 r == {n \in q : n > a}
                 b == IF r = {} THEN Len(s) + 1
                      ELSE CHOOSE n \in r : \A m \in r : n <= m
             IN  Value(SubSeq(s, a + 1, b - 1))

\* lines[idx - 2].strip().split('"')[1]
PrevLiteral(lines, n) ==
    IF PrevLine(lines, n).raised THEN IndexError
    ELSE SplitQuote1(Strip(PrevLine(lines, n).value))

\* variant: a description is appended whether or not the list holds it
NotInListAlways(list, d) == TRUE

\* `description not in dangerous_calls`
NotInList(list, d) == ~Contains(list, d)

\* the loop over dangerous_patterns for line n, from entry k on
RECURSIVE ScanPatterns(_, _, _, _)
ScanPatterns(found, lines, n, k) ==
    IF k > Len(dangerous_patterns) THEN found
    ELSE LET e == dangerous_patterns[k]
             prev == PrevLiteral(lines, n)
             description ==
                 IF e.pattern = "Cipher"
                 THEN <<"Cipher", "(">> \o prev.value \o <<")">>
                 ELSE e.description
         IN  IF ~Contains(Strip(lines[n]), e.pattern)
             THEN ScanPatterns(found, lines, n, k + 1)
             ELSE IF e.pattern = "Cipher" /\ prev.raised
             THEN ScanPatterns(found, lines, n, k + 1)
             ELSE IF description # <<>> /\ NotInList(found, description)
             THEN ScanPatterns(Append(found, description), lines, n, k + 1)
             ELSE ScanPatterns(found, lines, n, k + 1)

\* the loop over the lines of one file, from line n on
RECURSIVE ScanLines(_, _, _)
ScanLines(found, lines, n) ==
    IF n > Len(lines) THEN found
    ELSE ScanLines(ScanPatterns(found, lines, n, 1), lines, n + 1)

\* the loop over the files of the directory
RECURSIVE ParseSmaliCalls(_, _)
ParseSmaliCalls(found, files) ==
    IF files = <<>> THEN found
    ELSE ParseSmaliCalls(ScanLines(found, Head(files), 1), Tail(files))

\* parse_smali_calls: the descriptions matched in the files of a smali
\* directory, each once, in the order of their first match
parse_smali_calls(files) == ParseSmaliCalls(<<>>, files)

\* ----------------------------------------------------------- parse_smali_url
\* the strings url_regex and ip_regex match in full
UrlTokens == {"http://a", "https://b"}
IpTokens == {"10.0.0.1", "10.0.0.2"}

\* regex.search(line): the leftmost match, or None
Search(line, tokens) ==
    LET m == {n \in 1..Len(line) : line[n] \in tokens}
    IN  IF m = {} THEN <<>>
        ELSE <<line[CHOOSE n \in m : \A k \in m : n <= k]>>

\* extracted_data after one line: the URL found first, then the IP found
AddMatch(data, match) ==
    IF match # <<>> /\ ~Contains(data, match[1]) THEN data \o match ELSE data

RECURSIVE UrlLines(_, _)
UrlLines(data, lines) ==
    IF lines = <<>> THEN data
    ELSE LET line == Strip(Head(lines))
         IN  UrlLines(AddMatch(AddMatch(data, Search(line, UrlTokens)),
                               Search(line, IpTokens)),
                      Tail(lines))

RECURSIVE ParseSmaliUrl(_, _)
ParseSmaliUrl(data, files) ==
    IF files = <<>> THEN data
    ELSE ParseSmaliUrl(UrlLines(data, Head(files)), Tail(files))

parse_smali_url(files) == ParseSmaliUrl(<<>>, files)

\* ------------------------------------------------- report_to_feature_vector
\* variant: the key is the value alone, without the category and "::"
key_fmt_bare(k, val) == Replace(Strip(val), ".", "_")

\* key_fmt: f"{k}::{val.strip()}".replace(".", "_")
key_fmt(k, val) == Replace(k \o <<":", ":">> \o Strip(val), ".", "_")

\* a Python dict: the sequence of its items in insertion order
HasKey(d, key) == \E n \in 1..Len(d) : d[n].key = key

\* d[key] = v: a new key goes last, an existing key keeps its place
DictSet(d, key, v) ==
    IF HasKey(d, key)
    THEN [n \in 1..Len(d) |-> IF d[n].key = key THEN [key |-> key, value |-> v]
                                                ELSE d[n]]
    ELSE Append(d, [key |-> key, value |-> v])

\* the body of the loops over the values of one category
AddValue(d, k, val) ==
    IF k = api_calls
    THEN IF Strip(val[1]) # <<>> THEN DictSet(d, key_fmt(k, val[1]), One) ELSE d
    ELSE IF k = interesting_calls
    THEN IF Contains(val, "HttpPost")
         THEN DictSet(d, key_fmt(k, FirstField(val)), One)
         ELSE IF Contains(val, "(") /\ Contains(val, ";") THEN d
         ELSE IF Strip(val) # <<>> THEN DictSet(d, key_fmt(k, val), One) ELSE d
    ELSE IF Strip(val) # <<>> THEN DictSet(d, key_fmt(k, val), One) ELSE d

RECURSIVE AddValues(_, _, _)
AddValues(d, k, values) ==
    IF values = <<>> THEN d
    ELSE AddValues(AddValue(d, k, Head(values)), k, Tail(values))

\* variant: the keys visited in an order that changes from call to call
ReportItemsPerCall ==
    IF legacy.calls = 0 THEN ReportKeyList
    ELSE [n \in 1..Len(ReportKeyList) |-> ReportKeyList[Len(ReportKeyList) + 1 - n]]

\* report.items(): the keys in insertion order
ReportItems == ReportKeyList

RECURSIVE AddItems(_, _, _)
AddItems(d, report, keys) ==
    IF keys = <<>> THEN d
    ELSE AddItems(IF Head(keys) \in VectorCategories
                  THEN AddValues(d, Head(keys), report[Head(keys)])
                  ELSE d,
                  report, Tail(keys))

report_to_feature_vector(report) ==
    AddItems(<<[key |-> sha256, value |-> report[sha256]]>>, report, ReportItems)

\* ------------------------------------------------------------- create_output
\* json.dump(processed_output, json_file, indent=4): the chunks written, one
\* per item between the braces
Chunk(item) == item.key \o <<":">> \o item.value

JsonDump(d) ==
    <<<<"{">>>> \o [n \in 1..Len(d) |-> Chunk(d[n])] \o <<<<"}">>>>

\* the dictionary display of create_output
Output(l) ==
    [k \in Range(ReportKeyList) |->
        CASE k = sha256 -> l.app_infos[1]
          [] k = md5 -> l.app_infos[2]
          [] k = ssdeep -> l.ssdeep_value
          [] k = package_name -> l.app_infos[3]
          [] k = sdk_version -> l.app_infos[4]
          [] k = apk_name -> l.app_infos[5]
          [] k = app_permissions -> l.app_permissions
          [] k = api_permissions -> l.api_permissions
          [] k = api_calls -> l.api_calls
          [] k = interesting_calls -> l.dangerous_calls
          [] k = detected_ad_networks -> l.detected_ads
          [] OTHER -> <<>>]

\* ------------------------------------------------------------ inputs
\* values of uses-permission entries, one of them blank
PermissionValues == {<<"INTERNET">>, <<"CAMERA">>, <<"a", ".", "b">>, <<" ">>}

AppPermissionLists == UNION {[1..n -> PermissionValues] : n \in 0..MaxValues}

\* check_api_permissions: permissions, and [call, permission] pairs
ApiPermissionLists == {<<>>, <<<<"INTERNET">>>>}
ApiCallLists == {<<>>, <<<<<<"android", ".", "net">>, <<"INTERNET">>>>>>}

\* detect_ad_networks on one module: no ad network, or one
AdNetworkLists == {<<>>, <<<<"AdMob">>>>}

\* get_sample_info: [sha256, md5, package, sdk version, name], or the two
\* hashes alone when aapt failed
AppInfos ==
    {<<Sha(FileA), <<"M", "1">>, <<"com", ".", "x">>, <<"21">>, <<"a">>>>,
     <<Sha(FileA), <<"M", "1">>>>}

\* `ssdeep_value = hash(sample_file)` of main.py
SsdeepValue == <<"-", "7", "3">>

\* concatenation of a list of lists
RECURSIVE Flatten(_)
Flatten(q) == IF q = <<>> THEN <<>> ELSE Head(q) \o Flatten(Tail(q))

\* the smali directory of one .dex module: one file with at most MaxLines
\* matching instructions
ModuleLines ==
    {<<Flatten(q)>> : q \in UNION {[1..n -> MatchingLines] : n \in 0..MaxLines}}

LegacyInit ==
    /\ BatchOff
    /\ analyzer = AnalyzerIdle
    /\ cli = CliIdle
    /\ output_file = NoFile
    /\ \E n \in 0..MaxModules, ai \in AppInfos, ap \in AppPermissionLists,
          pp \in ApiPermissionLists, ac \in ApiCallLists :
         legacy = [LegacyIdle EXCEPT !.pc = IF n > 0 THEN "scan" ELSE "create_output",
                                     !.dex_left = n, !.app_infos = ai,
                                     !.ssdeep_value = SsdeepValue,
                                     !.app_permissions = ap,
                                     !.api_permissions = pp, !.api_calls = ac]

\* ------------------------------------------------------------ main.py: run
\* list.extend
Extend(list, more) == list \o more

\* run, one .dex module: dangerous_calls.extend(parse_smali_calls(...)) and
\* detected_ads.extend(detect_ad_networks(...))
LegacyScan ==
    /\ legacy.pc = "scan"
    /\ legacy.dex_left > 0
    /\ \E lines \in ModuleLines, ads \in AdNetworkLists :
         legacy' = [legacy EXCEPT
                      !.dangerous_calls = Extend(@, parse_smali_calls(lines)),
                      !.detected_ads = Extend(@, ads),
                      !.dex_left = @ - 1,
                      !.pc = IF legacy.dex_left = 1 THEN "create_output" ELSE "scan"]
    /\ UNCHANGED <<batchVars, analyzer, output_file, cli>>

\* create_output up to report_to_feature_vector: app_infos[2] raises
\* IndexError when get_sample_info returned the hashes alone
CreateOutput ==
    /\ legacy.pc = "create_output"
    /\ IF Len(legacy.app_infos) < 5
       THEN legacy' = [legacy EXCEPT !.pc = "raised"]
       ELSE legacy' = [legacy EXCEPT
                         !.output = Output(legacy),
                         !.processed_output = report_to_feature_vector(Output(legacy)),
                         !.calls = @ + 1,
                         !.pc = "open"]
    /\ UNCHANGED <<batchVars, analyzer, output_file, cli>>

\* output_path.open("w"): the file exists and is empty
OpenOutput ==
    /\ legacy.pc = "open"
    /\ output_file' = [exists |-> TRUE, chunks |-> <<>>]
    /\ legacy' = [legacy EXCEPT !.pc = "dump"]
    /\ UNCHANGED <<batchVars, analyzer, cli>>

\* json.dump: the next chunk reaches the file
DumpOutput ==
    /\ legacy.pc = "dump"
    /\ Len(output_file.chunks) < Len(JsonDump(legacy.processed_output))
    /\ output_file' = [output_file EXCEPT
                         !.chunks = Append(@, JsonDump(legacy.processed_output)[Len(@) + 1])]
    /\ UNCHANGED <<batchVars, analyzer, legacy, cli>>

\* the with-block of create_output ends: the file is closed
CloseOutput ==
    /\ legacy.pc = "dump"
    /\ Len(output_file.chunks) = Len(JsonDump(legacy.processed_output))
    /\ legacy' = [legacy EXCEPT
                    !.pc = "returned",
                    !.first = IF legacy.calls = 1
                              THEN [vector |-> legacy.processed_output,
                                    bytes |-> output_file.chunks]
                              ELSE @]
    /\ UNCHANGED <<batchVars, analyzer, output_file, cli>>

\* create_output is called again with the same arguments
OutputAgain ==
    /\ legacy.pc = "returned"
    /\ legacy.calls < MaxCalls
    /\ legacy' = [legacy EXCEPT !.pc = "create_output"]
    /\ UNCHANGED <<batchVars, analyzer, output_file, cli>>

LegacyNext ==
    \/ LegacyScan
    \/ CreateOutput
    \/ OpenOutput
    \/ DumpOutput
    \/ CloseOutput
    \/ OutputAgain

LegacySpec == LegacyInit /\ [][LegacyNext]_vars

(***************************************************************************)
(* extractor.py main: the command line entry point for one sample          *)
(***************************************************************************)

\* what run() can do when main calls it: return after a report, return
\* after its own handler has logged an error of the sample, or re-raise
\* KeyboardInterrupt
RunOutcomes == {"report", "sample", KInt}

CliLog(event) == [cli EXCEPT !.log = @ \cup {event}]

CliInit ==
    /\ BatchOff
    /\ analyzer = AnalyzerIdle
    /\ legacy = LegacyIdle
    /\ output_file = NoFile
    /\ \E f \in DirFiles, w \in BOOLEAN, r \in BOOLEAN :
          cli = [CliIdle EXCEPT !.pc = "logger", !.sample = f,
                                !.working_dir = w, !.report_dir = r]

\* create_logger and the first log line, before the try statement
CliCreateLogger ==
    /\ cli.pc = "logger"
    /\ cli' = [CliLog("invoked") EXCEPT !.pc = "mkdir_working"]
    /\ UNCHANGED <<batchVars, analyzer, legacy, output_file>>

\* resolved_working_dir.mkdir(parents=True, exist_ok=True)
CliMkdirWorking ==
    /\ cli.pc = "mkdir_working"
    /\ \E ok \in BOOLEAN :
          /\ cli.working_dir => ok
          /\ cli' = IF ok
                    THEN [cli EXCEPT !.pc = "mkdir_report",
                                     !.working_dir = TRUE]
                    ELSE [cli EXCEPT !.pc = "except", !.exc = Exc,
                                     !.error = "working_dir"]
    /\ UNCHANGED <<batchVars, analyzer, legacy, output_file>>

\* resolved_report_dir.mkdir(parents=True, exist_ok=True)
CliMkdirReport ==
    /\ cli.pc = "mkdir_report"
    /\ \E ok \in BOOLEAN :
          /\ cli.report_dir => ok
          /\ cli' = IF ok
                    THEN [cli EXCEPT !.pc = "run", !.report_dir = TRUE]
                    ELSE [cli EXCEPT !.pc = "except", !.exc = Exc,
                                     !.error = "report_dir"]
    /\ UNCHANGED <<batchVars, analyzer, legacy, output_file>>

\* run(apk_file, ...) and the echo after it
CliRun ==
    /\ cli.pc = "run"
    /\ \E outcome \in RunOutcomes :
          cli' = CASE outcome = "report" ->
                        [CliLog("completed") EXCEPT !.pc = "finally"]
                   [] outcome = "sample" ->
                        [CliLog("completed") EXCEPT !.pc = "finally",
                                                    !.error = "sample"]
                   [] outcome = KInt ->
                        [cli EXCEPT !.pc = "except", !.exc = KInt,
                                    !.error = "cancelled"]
    /\ UNCHANGED <<batchVars, analyzer, legacy, output_file>>

\* the user interrupts the command while it creates its directories
CliInterrupt ==
    /\ cli.pc \in {"mkdir_working", "mkdir_report"}
    /\ cli' = [cli EXCEPT !.pc = "except", !.exc = KInt,
                          !.error = "cancelled"]
    /\ UNCHANGED <<batchVars, analyzer, legacy, output_file>>

\* except KeyboardInterrupt / except Exception: both log and echo, neither
\* raises again
CliExcept ==
    /\ cli.pc = "except"
    /\ cli' = [CliLog(IF cli.exc = KInt THEN "interrupted" ELSE "error")
                  EXCEPT !.pc = "finally", !.exc = "none"]
    /\ UNCHANGED <<batchVars, analyzer, legacy, output_file>>

\* finally: remove the working directory if it exists; an error of rmtree
\* is logged.  main then returns and the command ends with status 0.
CliFinally ==
    /\ cli.pc = "finally"
    /\ \E removed \in BOOLEAN :
          /\ ~cli.working_dir => removed
          /\ cli' = [CliLog(IF removed THEN "finished" ELSE "cleanup_failed")
                        EXCEPT !.pc = "exit",
                               !.working_dir = ~removed,
                               !.exit_code = IF cli.exc = "none" THEN 0 ELSE 1]
    /\ UNCHANGED <<batchVars, analyzer, legacy, output_file>>

CliNext ==
    \/ CliCreateLogger
    \/ CliMkdirWorking
    \/ CliMkdirReport
    \/ CliRun
    \/ CliInterrupt
    \/ CliExcept
    \/ CliFinally

CliSpec == CliInit /\ [][CliNext]_vars

(***************************************************************************)
(* analyzer/smali.py and analyzer/apk_info.py: the extractors on the files *)
(* of one sample                                                           *)
(***************************************************************************)

\* the lines a smali file is made of
SmaliLines ==
    {ConstLine(<<"AES">>), PlainLine, CipherLine, PostLine, ExecLine,
     ExecPostLine, UrlLine}

SmaliFiles == UNION {[1..n -> SmaliLines] : n \in 0..MaxFileLines}

\* os.walk(smali_location): the files of the directory, one file or two
SmaliDirs ==
    {<<f>> : f \in SmaliFiles}
    \cup {<<f, g>> : f, g \in {h \in SmaliFiles : Len(h) = 1}}

\* activity names as aapt prints them; "U+00E9" is a character outside ASCII
\* and "U+0007" a control character
ActivityNames ==
    {<<"Main">>, <<"Other">>, <<"Oth", "U+00E9", "r">>, <<"Oth", "U+0007", "er">>}

ControlChars == {"U+0007"}
NonAscii == {"U+00E9"}

\* name.translate(CC_TRANS)
remove_control_chars(name) == SelectSeq(name, LAMBDA c : c \notin ControlChars)

\* name.encode("ascii", "replace").decode()
sanitize_to_ascii(name) ==
    [k \in 1..Len(name) |-> IF name[k] \in NonAscii THEN "?" ELSE name[k]]

Sanitized(name) == sanitize_to_ascii(remove_control_chars(name))

\* `aapt dump badging`: it fails, or prints no launchable-activity, or one
BadgingOutcomes ==
    {[failed |-> TRUE, launchable |-> <<>>], [failed |-> FALSE, launchable |-> <<>>]}
    \cup {[failed |-> FALSE, launchable |-> a] : a \in ActivityNames}

\* `aapt d xmltree`: it fails, or prints the activity blocks of the manifest
XmltreeOutcomes ==
    {[failed |-> TRUE, names |-> <<>>]}
    \cup {[failed |-> FALSE, names |-> q] :
             q \in UNION {[1..n -> ActivityNames] : n \in 0..MaxActivities}}

\* get_activities: the launchable activity of the badging, if any, followed
\* by the activities of the manifest; nothing when the badging failed
get_activities(badging, xmltree) ==
    LET main_activity == Sanitized(badging.launchable)
        manifest_activities == [k \in 1..Len(xmltree.names) |->
                                   Sanitized(xmltree.names[k])]
    IN  IF badging.failed THEN <<>>
        ELSE IF main_activity # <<>> THEN <<main_activity>> \o manifest_activities
        ELSE manifest_activities

AnalyzerInit ==
    /\ BatchOff
    /\ legacy = LegacyIdle
    /\ output_file = NoFile
    /\ cli = CliIdle
    /\ \E d \in SmaliDirs :
          analyzer = [AnalyzerIdle EXCEPT !.pc = "parse_smali_calls", !.files = d]

ScanCalls ==
    /\ analyzer.pc = "parse_smali_calls"
    /\ analyzer' = [analyzer EXCEPT
                      !.dangerous_calls = parse_smali_calls(analyzer.files),
                      !.pc = "parse_smali_url"]
    /\ UNCHANGED <<batchVars, legacy, output_file, cli>>

ScanUrls ==
    /\ analyzer.pc = "parse_smali_url"
    /\ analyzer' = [analyzer EXCEPT
                      !.app_urls = parse_smali_url(analyzer.files),
                      !.pc = "get_activities"]
    /\ UNCHANGED <<batchVars, legacy, output_file, cli>>

GetActivities ==
    /\ analyzer.pc = "get_activities"
    /\ \E b \in BadgingOutcomes, x \in XmltreeOutcomes :
          analyzer' = [analyzer EXCEPT
                         !.badging = b, !.xmltree = x,
                         !.app_activities = get_activities(b, x),
                         !.pc = "done"]
    /\ UNCHANGED <<batchVars, legacy, output_file, cli>>

AnalyzerNext ==
    \/ ScanCalls
    \/ ScanUrls
    \/ GetActivities

AnalyzerSpec == AnalyzerInit /\ [][AnalyzerNext]_vars

\* ------------------------------------------------------- specification
Next ==
    \/ MainDirs
    \/ MakeApkList
    \/ ExtractAllSubmit
    \/ Collect
    \/ ParentInterrupt
    \/ WithExit
    \/ KbdHandler
    \/ CheckLogs
    \/ WriteManifest
    \/ MainFinally
    \/ \E i \in TaskIds : StartTask(i)
    \/ \E i \in TaskIds : BeginExtraction(i)
    \/ \E i \in TaskIds : Unpack(i)
    \/ \E i \in TaskIds : Manifest(i)
    \/ \E i \in TaskIds : Dex(i)
    \/ \E i \in TaskIds : Report(i)
    \/ \E i \in TaskIds : Interrupt(i)
    \/ \E i \in TaskIds : Cleanup(i)

Spec == Init /\ [][Next]_vars

\* the batch command started again after an earlier run
RerunSpec == RerunInit /\ [][Next]_vars

\* ---------------------------------------------------------- properties
\* the task has created its workspace and has not reached a terminal state
Using(i) == task[i].created /\ task[i].pc # "done"

\* C1: once a task that created its workspace directory has reached a
\* terminal state, base_working_dir/<stem> no longer exists (a removal that
\* failed with OSError, which delete_working_dir logs, is set aside).
C1_WorkspaceGoneAtTerminal ==
    \A i \in TaskIds :
        task[i].created /\ task[i].pc = "done" /\ ~task[i].rmFailed
            => "dir" \notin fs[WorkingDir(i)]

\* C2: at no point do two tasks that have not reached a terminal state use
\* the same workspace directory, whatever list make_apk_list produced.
C2_WorkspaceExclusive ==
    \A i, j \in TaskIds :
        i # j /\ Using(i) /\ Using(j) => WorkingDir(i) # WorkingDir(j)

\* C3: when the batch has completed, every sample whose pipeline failed with
\* an exception caught at the task boundary (in run or in extract_feature) is
\* flagged anomalous and its file name is in the anomaly manifest.
C3_FailedSampleInManifest ==
    mainPc \in {"main_finally", "exit"} /\ status = "ok"
        => \A i \in TaskIds :
               task[i].boundary # "none"
                   => is_anomaly[i] /\ apk_list[i] \in Range(manifest)

\* a KeyboardInterrupt has reached extract_all and the command is over
CancelledRun == mainPc = "exit" /\ cancel

Started == {i \in TaskIds : task[i].pc \notin {"pending", "done"}}

\* C4: unless a KeyboardInterrupt reached extract_all, whatever exceptions
\* the samples raised, once extract_all is over every task has run to a
\* terminal state, extract_all has returned normally and the command ends
\* after the anomaly check.
C4_FailureIsolated ==
    ~cancel /\ apk_list # <<>>
            /\ mainPc \in {"check_logs", "write_manifest", "main_finally", "exit"}
        => /\ \A i \in TaskIds : task[i].pc = "done" /\ future[i] = "finished"
           /\ status \in {"running", "ok"}
           /\ mainPc \in {"main_finally", "exit"} => status = "ok"

\* C4 witness: the batch is over, one sample failed with an exception in
\* extract_feature, another sample was processed up to its persisted report
\* and the anomaly check has run.
C4_Witness ==
    /\ mainPc = "exit" /\ status = "ok" /\ ~cancel
    /\ \E i, j \in TaskIds :
          /\ i # j
          /\ task[i].boundary = "extract_feature"
          /\ task[j].boundary = "none" /\ task[j].reportTried
          /\ ReportName(apk_list[j]) \in reports

\* C5: once a KeyboardInterrupt has reached extract_all, a task that has not
\* started yet is dropped: it never starts running.
C5_PendingDropped ==
    [][\A i \in TaskIds :
          cancel /\ future[i] = "pending" => future'[i] \notin {"running", "finished"}]_vars

C7_BoundedConcurrency ==
    Cardinality(Started) <= (IF physical_cores > 0 THEN physical_cores ELSE 4)

\* C7 witness: the pool is saturated while a task is still waiting
C7_Witness ==
    /\ Started # {} /\ Cardinality(Started) = max_workers
    /\ \E i \in TaskIds : future[i] = "pending"

\* position of a stage in the order of the pipeline
Rank(pc) ==
    CASE pc = "pending" -> 0
      [] pc = "mkdir" -> 1
      [] pc = "unpack" -> 2
      [] pc = "manifest" -> 3
      [] pc = "dex" -> 4
      [] pc = "report" -> 5
      [] pc = "cleanup" -> 6
      [] pc = "done" -> 7

\* C8: a task moves through its stages only forwards in the order unpack,
\* manifest extraction, the .dex modules one after another, report, cleanup;
\* a task that did any stage ends through cleanup and nothing follows it.
C8_StageOrder ==
    [][\A i \in TaskIds :
          /\ Rank(task[i].pc) <= Rank(task'[i].pc)
          /\ task'[i].pc # task[i].pc /\ task'[i].pc = "done"
                => task[i].pc \in {"cleanup", "pending"}
          /\ task'[i].pc # task[i].pc /\ task[i].pc = "pending"
                => task'[i].pc \in {"mkdir", "done"}
          /\ task[i].pc = task'[i].pc /\ task[i] # task'[i]
                => task[i].pc = "dex" /\ task'[i].dexLeft = task[i].dexLeft - 1]_vars

\* C8 witness: a lone task is about to clean up after unpacking, listing two
\* .dex modules, a failed disassembly of each and the report
C8_Witness ==
    /\ Len(apk_list) = 1
    /\ task[1].pc = "cleanup" /\ task[1].unpack = "ok" /\ task[1].reportTried
    /\ {"unpack", "smali"} \subseteq fs[WorkingDir(1)]
    /\ ReportName(apk_list[1]) \in reports

\* C9: a sample whose unpacking failed on an invalid archive skips the .dex
\* stage, reaches create_report with the hashes in app_infos, and is flagged
\* anomalous once the batch has completed.
C9_BadArchive ==
    \A i \in TaskIds :
        task[i].unpack = "badzip"
            => /\ task[i].pc # "dex"
               /\ task[i].pc = "report" => task[i].infos \in {"hashes", "full"}
               /\ task[i].pc \in {"cleanup", "done"} /\ task[i].exc = "none"
                     => task[i].reportTried
               /\ mainPc \in {"main_finally", "exit"} /\ status = "ok"
                     => is_anomaly[i]

\* C10: while check_anomalies reads the logs or writes the manifest, and
\* whenever the manifest has been written, no task is pending or running.
C10_AnomalyPassAfterTasks ==
    mainPc \in {"check_logs", "write_manifest"} \/ manifestTouched
        => \A i \in TaskIds :
               task[i].pc = "done" /\ future[i] \notin {"pending", "running"}

\* C10 witness: the anomaly pass is about to write the manifest for a batch
\* of two samples that both went through their pipeline
C10_Witness ==
    /\ mainPc = "write_manifest"
    /\ Len(apk_list) = 2
    /\ \A i \in TaskIds : task[i].created /\ is_anomaly[i]

\* C11: when the report of a sample, the file named from its primary content
\* hash, is already persisted and overwrite is off, starting the sample again
\* is a no-op: the task ends at once, no workspace is created, no stage runs
\* and the reports stay as they are.
C11_PersistedReportSkipped ==
    [][\A i \in TaskIds :
          /\ task[i].pc = "pending" /\ task'[i].pc # "pending"
          /\ ReportName(apk_list[i]) \in reports /\ ~overwrite
          => task'[i].pc = "done" /\ fs' = fs /\ reports' = reports]_vars

C18_StepsIsolated ==
    \A i \in TaskIds :
        task[i].pc \in {"cleanup", "done"} /\ task[i].created /\ task[i].exc = "none"
            => task[i].reportTried

\* ---------------------------------------------- properties of main.py
\* the feature vector and the report dictionary of the current call
Vector == legacy.processed_output
RawReport == legacy.output

\* the value a key is built from (api_calls holds [call, permission] pairs)
KeyedValue(c, val) == IF c = api_calls THEN val[1] ELSE val

\* the keys one category contributes to the feature vector
CategoryKeys(report, c) == {e.key : e \in Range(AddValues(<<>>, c, report[c]))}

\* C12: whoever reads the final report path while create_output persists a
\* report finds no file or a completely written report, never a part of it.
C12_NoPartialReport ==
    output_file.exists => output_file.chunks = JsonDump(Vector)

C14_KeyForm ==
    \A n \in 2..Len(Vector) :
        /\ Vector[n].value = One
        /\ \E c \in VectorCategories : \E m \in 1..Len(RawReport[c]) :
              LET v == Strip(KeyedValue(c, RawReport[c][m]))
              IN  v # <<>> /\ Vector[n].key = Replace(c \o <<":", ":">> \o v, ".", "_")

\* C15: when report_to_feature_vector has built the feature vector, the keys
\* two different categories contributed to it are disjoint, and no such key
\* is the name of a scalar top-level field.
C15_CollisionFree ==
    legacy.pc = "open"
        => LET keys == [c \in VectorCategories |-> CategoryKeys(RawReport, c)]
           IN  \A c1, c2 \in VectorCategories :
                  /\ c1 # c2 => keys[c1] \cap keys[c2] = {}
                  /\ keys[c1] \cap ScalarFields = {}

\* C15 witness: the same permission is a declared permission and an API
\* permission, and the feature vector holds a key for each
C15_Witness ==
    /\ legacy.calls > 0
    /\ \E v \in PermissionValues :
          /\ Contains(RawReport[app_permissions], v)
          /\ Contains(RawReport[api_permissions], v)
          /\ HasKey(Vector, key_fmt(app_permissions, v))
          /\ HasKey(Vector, key_fmt(api_permissions, v))

\* C16: the feature vector holds every scalar field of the report under
\* its name with the report's value, and a key with value 1 for every declared
\* permission that is not blank.
C16_ScalarsVerbatim ==
    legacy.calls > 0
        => /\ \A f \in ScalarFields :
                 \E n \in 1..Len(Vector) :
                     Vector[n].key = f /\ Vector[n].value = RawReport[f]
           /\ \A m \in 1..Len(RawReport[app_permissions]) :
                 LET v == RawReport[app_permissions][m]
                 IN  Strip(v) # <<>> =>
                        \E n \in 1..Len(Vector) :
                            /\ Vector[n].key = key_fmt(app_permissions, v)
                            /\ Vector[n].value = One

\* C17: the findings accumulated over the modules of the sample hold no
\* label twice, and the feature vector holds no key twice.
C17_FindingsOnce ==
    /\ \A m, n \in 1..Len(legacy.dangerous_calls) :
          m # n => legacy.dangerous_calls[m] # legacy.dangerous_calls[n]
    /\ \A m, n \in 1..Len(Vector) : m # n => Vector[m].key # Vector[n].key

\* C20: the command of extractor.py ends with a non-zero status exactly
\* when a shared directory could not be created or the run was cancelled;
\* an error of the sample alone leaves the status at zero.
C20_ExitStatus ==
    cli.pc = "exit" =>
       (cli.exit_code # 0 <=>
           cli.error \in {"working_dir", "report_dir", "cancelled"})

\* C28: when run has processed one .dex module of a sample, whether it was
\* disassembled and scanned or the disassembler failed, the disassembly
\* directory <working_dir>/smali of that sample does not exist any more.
C28_SmaliGoneAfterModule ==
    [][\A i \in TaskIds :
          task[i].pc = "dex" /\ task'[i] # task[i]
              /\ task'[i].pc \in {"dex", "report"}
          => "smali" \notin fs'[WorkingDir(i)]]_vars

\* C29: once the batch has completed, a sample whose task logged an ERROR or
\* a WARNING while it was processed (the log that create_logger opened for it
\* holds such a line) is flagged anomalous.
C29_LoggedErrorSeen ==
    mainPc \in {"main_finally", "exit"} /\ status = "ok"
        => \A i \in TaskIds :
               logs[SanitizedAppName(ApkName(i))] \cap {"ERROR", "WARNING"} # {}
                   => is_anomaly[i]

\* C21 as claimed: check_log flags an APK that was not flagged before exactly
\* when its log file exists and holds a line with the ERROR or the WARNING
\* marker; an APK whose log file is missing is not flagged.
C21_FlaggedIffMarker ==
    [][mainPc = "check_logs" /\ apk_list # <<>>
          => \A i \in TaskIds :
                ~is_anomaly[i]
                    => (is_anomaly'[i]
                           <=> /\ LogFile(i) # {}
                               /\ LogFile(i) \cap {"ERROR", "WARNING"} # {})]_vars

\* C21 amended: check_log flags an APK that was not flagged before exactly
\* when its log file exists and either holds a line with the ERROR or the
\* WARNING marker or could not be read (the read error is logged); an APK
\* whose log file is missing is not flagged, and a flag set earlier stays.
C21_FlaggedIffMarkerOrUnreadable ==
    [][mainPc = "check_logs" /\ apk_list # <<>>
          => \A i \in TaskIds :
                /\ is_anomaly[i] => is_anomaly'[i]
                /\ ~is_anomaly[i]
                      => (is_anomaly'[i]
                             <=> /\ LogFile(i) # {}
                                 /\ \/ LogFile(i) \cap {"ERROR", "WARNING"} # {}
                                    \/ i \in log_unreadable')]_vars

\* C21 witness: check_log has run for two APKs; it flagged one whose log was
\* read and holds a WARNING line but no ERROR line, and it left alone one
\* whose log file is missing
C21_Witness ==
    /\ mainPc = "write_manifest"
    /\ \E i, j \in TaskIds :
          /\ is_anomaly[i] /\ i \notin log_unreadable
          /\ "WARNING" \in LogFile(i) /\ "ERROR" \notin LogFile(i)
          /\ task[i].exc = "none" /\ future[i] = "finished"
          /\ LogFile(j) = {} /\ ~is_anomaly[j]

\* C30: once the batch has completed, an APK is flagged and in the anomaly
\* manifest only because of what happened to it in this run: a line with
\* WARNING, ERROR or CRITICAL written to its log in this run, an exception
\* caught at the task boundary or ending its task, or a log that could not be
\* read.  Lines of an earlier run do not flag it, and a sample skipped because
\* its report exists (nothing was written, nothing was raised) is not flagged.
C30_FlaggedByThisRunOnly ==
    mainPc \in {"main_finally", "exit"} /\ status = "ok"
        => \A i \in TaskIds :
               is_anomaly[i] /\ apk_list[i] \in Range(manifest)
                   => \/ written[SanitizedAppName(ApkName(i))]
                             \cap {"WARNING", "ERROR", "CRITICAL"} # {}
                      \/ task[i].boundary # "none"
                      \/ task[i].exc # "none"
                      \/ i \in log_unreadable

\* ------------------------------------------ properties of the extractors
\* no value is twice in the list
NoDuplicates(q) == \A m, n \in 1..Len(q) : m # n => q[m] # q[n]

\* parse_smali_calls has returned
Scanned == analyzer.pc \in {"parse_smali_url", "get_activities", "done"}

\* the catalogue entries with a fixed label
FixedEntries ==
    {k \in 1..Len(dangerous_patterns) :
        dangerous_patterns[k].pattern # "Cipher"
            /\ dangerous_patterns[k].description # <<>>}

\* the places (file, line, entry) where a line holds the pattern of an entry
\* with the fixed label d, numbered in scan order
MatchPlaces(d) ==
    {pl \in 0..(100 * Len(analyzer.files) + 10 * MaxFileLines
                   + Len(dangerous_patterns)) :
        LET f == pl \div 100
            n == (pl % 100) \div 10
            k == pl % 10
        IN  /\ f \in 1..Len(analyzer.files)
            /\ n \in 1..Len(analyzer.files[f])
            /\ k \in FixedEntries
            /\ dangerous_patterns[k].description = d
            /\ Contains(analyzer.files[f][n], dangerous_patterns[k].pattern)}

FirstPlace(d) == CHOOSE pl \in MatchPlaces(d) : \A o \in MatchPlaces(d) : pl <= o

\* C22: the labels parse_smali_calls returns for the "Cipher" entry are
\* exactly the labels Cipher(<literal>) for the lines that hold "Cipher" and
\* have, two lines above them in the same file, a line with a quoted literal;
\* a match on the first or second line of a file yields nothing.
C22_CipherLiteralTwoAbove ==
    Scanned
        => {d \in Range(analyzer.dangerous_calls) : d[1] = "Cipher"}
           = {<<"Cipher", "(">> \o SplitQuote1(Strip(f[n - 2])).value \o <<")">> :
                 <<f, n>> \in {<<g, m>> \in Range(analyzer.files) \X (3..MaxFileLines) :
                                  /\ m <= Len(g)
                                  /\ Contains(g[m], "Cipher")
                                  /\ ~SplitQuote1(Strip(g[m - 2])).raised}}

\* C23: for every line that holds the pattern of the HTTP POST entry,
\* parse_smali_calls returns a label that is the content of that line up to
\* some delimiter, and it does not return the fixed label "HttpPost".
C23_HttpPostLabelFromLine ==
    Scanned
        => \A f \in Range(analyzer.files) : \A n \in 1..Len(f) :
              Contains(f[n], "Lorg/apache/http/client/methods/HttpPost")
                  => /\ \E k \in 1..Len(Strip(f[n])) :
                           Contains(analyzer.dangerous_calls,
                                    SubSeq(Strip(f[n]), 1, k))
                     /\ ~Contains(analyzer.dangerous_calls, <<"HttpPost">>)

\* C24: parse_smali_url returns every URL and every IP address of every
\* line of the files, each once.
C24_EveryUrlAndIp ==
    analyzer.pc \in {"get_activities", "done"}
        => /\ NoDuplicates(analyzer.app_urls)
           /\ \A f \in Range(analyzer.files) : \A n \in 1..Len(f) :
                 \A k \in 1..Len(f[n]) :
                    f[n][k] \in UrlTokens \cup IpTokens
                        => Contains(analyzer.app_urls, f[n][k])

\* C25: the list parse_smali_calls returns for a directory holds no label
\* twice; it holds the fixed label of every catalogue entry whose pattern is
\* in some line, also when the line holds several patterns; and the fixed
\* labels are in the order of their first match (file, line, entry).
C25_LabelsOnceInFirstMatchOrder ==
    Scanned
        => /\ NoDuplicates(analyzer.dangerous_calls)
           /\ \A k \in FixedEntries :
                 MatchPlaces(dangerous_patterns[k].description) # {}
                     <=> Contains(analyzer.dangerous_calls,
                                  dangerous_patterns[k].description)
           /\ \A i, j \in 1..Len(analyzer.dangerous_calls) :
                 LET a == analyzer.dangerous_calls[i]
                     b == analyzer.dangerous_calls[j]
                 IN  i < j /\ MatchPlaces(a) # {} /\ MatchPlaces(b) # {}
                         => FirstPlace(a) < FirstPlace(b)

\* C25 witness: a file holds the exec pattern on one line and the exec and
\* HTTP POST patterns together on a later line; the scan returned the exec
\* label once, followed by the HTTP POST label
C25_Witness ==
    /\ Scanned
    /\ \E f \in Range(analyzer.files) : \E m, n \in 1..Len(f) :
          m < n /\ f[m] = ExecLine /\ f[n] = ExecPostLine
    /\ analyzer.dangerous_calls
          = <<dangerous_patterns[4].description, dangerous_patterns[3].description>>

\* C26: the list get_activities returns holds no activity twice; the
\* launchable activity, when there is one, is its first element, and the
\* other activities of the manifest follow in the order of their declaration.
C26_MainFirstNoDuplicates ==
    analyzer.pc = "done" /\ ~analyzer.badging.failed
        => LET main_activity == Sanitized(analyzer.badging.launchable)
               declared == [k \in 1..Len(analyzer.xmltree.names) |->
                               Sanitized(analyzer.xmltree.names[k])]
               others == SelectSeq(declared, LAMBDA a : a # main_activity)
           IN  /\ NoDuplicates(analyzer.app_activities)
               /\ main_activity # <<>>
                     => analyzer.app_activities = <<main_activity>> \o others

\* C27: every value of every list of the report that is not blank has a
\* key in the feature vector: its category, "::" and the value (or a leading
\* part of the value), with "." replaced by "_".
C27_EveryFindingEncoded ==
    legacy.calls > 0
        => \A c \in Range(ReportKeyList) \ ScalarFields :
              \A m \in 1..Len(RawReport[c]) :
                 LET v == Strip(KeyedValue(c, RawReport[c][m]))
                 IN  v # <<>> => \E k \in 1..Len(v) :
                                    HasKey(Vector, key_fmt(c, SubSeq(v, 1, k)))

====
